---- MODULE Spec2Model ----
(***************************************************************************)
(* Model of the lean-mind/monads containers: Either, Try, Option (the      *)
(* synchronous railway containers), IO and Future (deferred effects) and   *)
(* AsyncEither (a promise of an Either, run on the JavaScript event loop). *)
(*                                                                         *)
(* A JavaScript value is a record [t, v, items]: t is the type tag, v the  *)
(* primitive content as a string, items the contained values (the payload  *)
(* of a container, the elements of an array).                              *)
(***************************************************************************)
EXTENDS Naturals, Sequences, FiniteSets, TLC

VARIABLES scenario,
          \* synchronous containers
          self, op, fn, arg, others, res, depth, prev,
          \* deferred effects (IO, Future)
          lazy, lazyOp, effects, runs, out,
          \* AsyncEither on the event loop
          phase, promises, jobs, timers, now, trace, uncaught, nops

syncVars == <<self, op, fn, arg, others, res, depth, prev>>
lazyVars == <<lazy, lazyOp, effects, runs, out>>
asyncVars == <<phase, promises, jobs, timers, now, trace, uncaught, nops>>
vars == <<scenario, syncVars, lazyVars, asyncVars>>

(***************************************************************************)
(* Bounds                                                                  *)
(***************************************************************************)
MaxOthers == 2
MaxChain == 2
MaxSteps == 2
MaxRuns == 2
MaxAsyncOps == 2

(***************************************************************************)
(* JavaScript values                                                       *)
(***************************************************************************)
Num(s) == [t |-> "number", v |-> s, items |-> <<>>]
Str(s) == [t |-> "string", v |-> s, items |-> <<>>]
Null == [t |-> "null", v |-> "", items |-> <<>>]
Undefined == [t |-> "undefined", v |-> "", items |-> <<>>]
Err(msg) == [t |-> "Error", v |-> msg, items |-> <<>>]
Arr(elems) == [t |-> "Array", v |-> "", items |-> elems]

IsError(x) == x.t = "Error"
IsNullish(x) == x.t \in {"null", "undefined"}

\* the payloads the scenarios draw from
Payloads == {Num("1"), Str("a"), Null, Undefined, Err("x")}
Errors == {Err("x"), Err("y")}

(***************************************************************************)
(* Containers: the variant classes of either.ts, try.ts, option.ts         *)
(***************************************************************************)
Right(x) == [t |-> "Right", v |-> "", items |-> <<x>>]
Left(x) == [t |-> "Left", v |-> "", items |-> <<x>>]
Success(x) == [t |-> "Success", v |-> "", items |-> <<x>>]
Failure(e) == [t |-> "Failure", v |-> "", items |-> <<e>>]
Some(x) == [t |-> "Some", v |-> "", items |-> <<x>>]
None == [t |-> "None", v |-> "", items |-> <<>>]

SuccessTags == {"Right", "Success", "Some"}
FailureTags == {"Left", "Failure", "None"}
IsContainer(c) == c.t \in SuccessTags \cup FailureTags
IsSuccessVariant(c) == c.t \in SuccessTags
IsFailureVariant(c) == c.t \in FailureTags
KindOf(c) == CASE c.t \in {"Right", "Left"} -> "Either"
               [] c.t \in {"Success", "Failure"} -> "Try"
               [] c.t \in {"Some", "None"} -> "Option"
               [] OTHER -> "none"
\* this.value / this.error of a variant instance; None has no field
Payload(c) == IF c.t = "None" THEN Undefined ELSE c.items[1]

(***************************************************************************)
(* Outcome of a call: it returns ret or throws ret, and calls is the log   *)
(* of the functions and handlers it invoked, in order.                     *)
(***************************************************************************)
Ok(x, log) == [threw |-> FALSE, ret |-> x, calls |-> log]
Thrown(x, log) == [threw |-> TRUE, ret |-> x, calls |-> log]
Call(f, x) == <<[fn |-> f, arg |-> x]>>
NoCalls == <<>>

(***************************************************************************)
(* The functions the scenarios pass to the containers.  Apply(f, kind, x)  *)
(* is the outcome of f(x): [threw, val].  Transforms for flatMap/andThen   *)
(* return a container of the receiver's kind.                              *)
(***************************************************************************)
Returns(x) == [threw |-> FALSE, val |-> x]
Throws(x) == [threw |-> TRUE, val |-> x]

\* x => x * 2
Double(x) == IF x.t = "null" THEN Num("0")
             ELSE IF x.t # "number" THEN Num("NaN")
             ELSE CASE x.v = "1" -> Num("2")
                    [] x.v = "0" -> Num("0")
                    [] x.v = "2" -> Num("4")
                    [] OTHER -> Num("NaN")

\* Option.of: option.ts 26-31
Option_of(value) == IF IsNullish(value) THEN None ELSE Some(value)

SuccessOf(kind, x) == CASE kind = "Either" -> Right(x)
                        [] kind = "Try" -> Success(x)
                        [] OTHER -> Option_of(x)
FailureOf(kind) == CASE kind = "Either" -> Left(Str("e2"))
                     [] kind = "Try" -> Failure(Err("e2"))
                     [] OTHER -> None

MapFns == {"identity", "double", "toNull", "throwError", "throwString"}
FlatMapFns == {"toSuccess", "toFailure", "throwError"}

\* the closure x => g(f(x)) built from two of the closures above
ComposeFn(f, g) == f \o ">" \o g
ComposedFns == {ComposeFn(f, g) : f \in MapFns, g \in MapFns}

RECURSIVE Apply(_, _, _)
Apply(f, kind, x) ==
  CASE f = "identity" -> Returns(x)
    [] f = "double" -> Returns(Double(x))
    [] f = "toNull" -> Returns(Null)
    [] f = "toSuccess" -> Returns(SuccessOf(kind, x))
    [] f = "toFailure" -> Returns(FailureOf(kind))
    [] f = "toDefault" -> Returns(SuccessOf(kind, Num("0")))
    [] f = "throwError" -> Throws(Err("boom"))
    [] f = "throwString" -> Throws(Str("raw string"))
    [] f \in ComposedFns ->
         LET p == CHOOSE q \in MapFns \X MapFns : ComposeFn(q[1], q[2]) = f
             inner == Apply(p[1], kind, x)
         IN  IF inner.threw THEN inner ELSE Apply(p[2], kind, inner.val)
    [] OTHER -> Returns(Undefined)

\* zero-argument closures handed to Either.catch / Try.execute
Thunks == {"returnOne", "returnNull", "throwError", "throwString", "throwNull"}
RunThunk(f) ==
  CASE f = "returnOne" -> Returns(Num("1"))
    [] f = "returnNull" -> Returns(Null)
    [] f = "throwError" -> Throws(Err("boom"))
    [] f = "throwString" -> Throws(Str("raw string"))
    [] f = "throwNull" -> Throws(Null)
    [] OTHER -> Returns(Undefined)

(***************************************************************************)
(* Case maps.  A case map is named by a string; Handle(folding, key, x) is *)
(* the value returned by the handler stored under key when called with x.  *)
(***************************************************************************)
\* the case map of the fold scenarios: each handler returns a value that
\* names the handler and carries its argument
Handled(key, x) == [t |-> "handled", v |-> key, items |-> <<x>>]

\* the two handlers combineWith passes to other.fold
UnwrapResult(key, x) ==
  [t |-> "UnwrapResult",
   v |-> IF key \in {"ifRight", "ifSuccess"} THEN "true" ELSE "false",
   items |-> <<x>>]

\* 'Left value: ' + value, the string conversion of JavaScript
JsToString(x) ==
  CASE x.t \in {"number", "string"} -> x.v
    [] x.t = "null" -> "null"
    [] x.t = "undefined" -> "undefined"
    [] x.t = "Error" -> "Error: " \o x.v
    [] OTHER -> "[object Object]"

\* the six-key case maps of Option.from, Either.from and Try.from
OptionFromHandlers_keepsLeft(key, value) ==
  IF key \in {"ifSome", "ifSuccess", "ifRight", "ifLeft"} THEN Option_of(value) ELSE None
OptionFromHandlers(key, value) ==
  IF key \in {"ifSome", "ifSuccess", "ifRight"} THEN Option_of(value) ELSE None
EitherFromHandlers_noneIsRight(key, value) ==
  IF key \in {"ifRight", "ifSuccess", "ifSome", "ifNone"} THEN Right(value) ELSE Left(value)
EitherFromHandlers(key, value) ==
  IF key \in {"ifRight", "ifSuccess", "ifSome"} THEN Right(value) ELSE Left(value)
TryFromHandlers_rawLeft(key, value) ==
  CASE key \in {"ifSuccess", "ifSome", "ifRight"} -> Success(value)
    [] key = "ifNone" -> Failure(Err("Empty value"))
    [] OTHER -> Failure(value)
TryFromHandlers(key, value) ==
  CASE key \in {"ifSuccess", "ifSome", "ifRight"} -> Success(value)
    [] key = "ifFailure" -> Failure(value)
    [] key = "ifNone" -> Failure(Err("Empty value"))
    [] OTHER -> Failure(Err("Left value: " \o JsToString(value)))

Handle(folding, key, x) ==
  CASE folding = "unwrap" -> UnwrapResult(key, x)
    [] folding = "Option.from" -> OptionFromHandlers(key, x)
    [] folding = "Either.from" -> EitherFromHandlers(key, x)
    [] folding = "Try.from" -> TryFromHandlers(key, x)
    [] OTHER -> Handled(key, x)

(***************************************************************************)
(* fold: the exhaustive dispatch of each variant class                     *)
(***************************************************************************)
Left_fold_wrongHandler(this, folding) ==
  Ok(Handle(folding, "ifRight", this.items[1]), Call("ifRight", this.items[1]))
Left_fold(this, folding) ==
  Ok(Handle(folding, "ifLeft", this.items[1]), Call("ifLeft", this.items[1]))
Right_fold(this, folding) ==
  Ok(Handle(folding, "ifRight", this.items[1]), Call("ifRight", this.items[1]))
Success_fold(this, folding) ==
  Ok(Handle(folding, "ifSuccess", this.items[1]), Call("ifSuccess", this.items[1]))
Failure_fold(this, folding) ==
  Ok(Handle(folding, "ifFailure", this.items[1]), Call("ifFailure", this.items[1]))
Some_fold(this, folding) ==
  Ok(Handle(folding, "ifSome", this.items[1]), Call("ifSome", this.items[1]))
None_fold(this, folding) ==
  Ok(Handle(folding, "ifNone", Undefined), Call("ifNone", Undefined))

fold(this, folding) ==
  CASE this.t = "Left" -> Left_fold(this, folding)
    [] this.t = "Right" -> Right_fold(this, folding)
    [] this.t = "Success" -> Success_fold(this, folding)
    [] this.t = "Failure" -> Failure_fold(this, folding)
    [] this.t = "Some" -> Some_fold(this, folding)
    [] OTHER -> None_fold(this, folding)

(***************************************************************************)
(* map / flatMap / andThen                                                 *)
(***************************************************************************)
\* the success variants: apply the transform to this.value
MapWith(this, f) ==
  LET r == Apply(f, KindOf(this), this.items[1])
  IN  IF r.threw THEN Thrown(r.val, Call(f, this.items[1]))
      ELSE Ok([t |-> this.t, v |-> "", items |-> <<r.val>>], Call(f, this.items[1]))
ChainWith(this, f) ==
  LET r == Apply(f, KindOf(this), this.items[1])
  IN  IF r.threw THEN Thrown(r.val, Call(f, this.items[1]))
      ELSE Ok(r.val, Call(f, this.items[1]))

Right_map_asLeft(this, f) == MapWith([this EXCEPT !.t = "Left"], f)
Right_map(this, f) == MapWith(this, f)
\* a flatMap that wraps what the transform returns, as map does
Right_flatMap_wraps(this, f) == MapWith(this, f)
Right_flatMap(this, f) == ChainWith(this, f)
Right_andThen(this, f) == ChainWith(this, f)
Success_map(this, f) == MapWith(this, f)
Success_flatMap(this, f) == ChainWith(this, f)
Success_andThen(this, f) == ChainWith(this, f)
\* a map that passes the result through Option.of
Some_map_normalizes(this, f) ==
  LET r == MapWith(this, f)
  IN  IF r.threw THEN r ELSE Ok(Option_of(r.ret.items[1]), r.calls)
Some_map(this, f) == MapWith(this, f)
Some_flatMap(this, f) == ChainWith(this, f)
Some_andThen(this, f) == ChainWith(this, f)

\* the failure variants: a new instance with the same payload
Left_map_applies(this, f) == MapWith(this, f)
Left_map(this, f) == Ok(Left(this.items[1]), NoCalls)
Left_flatMap(this, f) == Ok(Left(this.items[1]), NoCalls)
Left_andThen(this, f) == Ok(Left(this.items[1]), NoCalls)
Failure_map(this, f) == Ok(Failure(this.items[1]), NoCalls)
Failure_flatMap(this, f) == Ok(Failure(this.items[1]), NoCalls)
Failure_andThen(this, f) == Ok(Failure(this.items[1]), NoCalls)
None_map(this, f) == Ok(None, NoCalls)
None_flatMap(this, f) == Ok(None, NoCalls)
None_andThen(this, f) == Ok(None, NoCalls)

map(this, f) ==
  CASE this.t = "Left" -> Left_map(this, f)
    [] this.t = "Right" -> Right_map(this, f)
    [] this.t = "Success" -> Success_map(this, f)
    [] this.t = "Failure" -> Failure_map(this, f)
    [] this.t = "Some" -> Some_map(this, f)
    [] OTHER -> None_map(this, f)
flatMap(this, f) ==
  CASE this.t = "Left" -> Left_flatMap(this, f)
    [] this.t = "Right" -> Right_flatMap(this, f)
    [] this.t = "Success" -> Success_flatMap(this, f)
    [] this.t = "Failure" -> Failure_flatMap(this, f)
    [] this.t = "Some" -> Some_flatMap(this, f)
    [] OTHER -> None_flatMap(this, f)
andThen(this, f) ==
  CASE this.t = "Left" -> Left_andThen(this, f)
    [] this.t = "Right" -> Right_andThen(this, f)
    [] this.t = "Success" -> Success_andThen(this, f)
    [] this.t = "Failure" -> Failure_andThen(this, f)
    [] this.t = "Some" -> Some_andThen(this, f)
    [] OTHER -> None_andThen(this, f)

(***************************************************************************)
(* The failure side: mapLeft / flatMapLeft / recover of Either and orElse  *)
(* of the three containers.  The failure variants apply the transform to   *)
(* their payload (None to undefined); the success variants return a new    *)
(* instance holding the same value.                                        *)
(***************************************************************************)
MapLeftFns == {"double", "throwError"}
RecoverFns == {"toSuccess", "toFailure", "toDefault", "throwError"}

\* Left.mapLeft: new Left(transform(this.value)); Right.mapLeft: new Right(this.value)
mapLeft(this, transform) ==
  LET r == Apply(transform, "Either", this.items[1])
  IN  IF this.t = "Right" THEN Ok(Right(this.items[1]), NoCalls)
      ELSE IF r.threw THEN Thrown(r.val, Call(transform, this.items[1]))
      ELSE Ok(Left(r.val), Call(transform, this.items[1]))
\* Left.flatMapLeft: transform(this.value); Right.flatMapLeft: new Right(this.value)
flatMapLeft(this, transform) ==
  IF this.t = "Right" THEN Ok(Right(this.items[1]), NoCalls) ELSE ChainWith(this, transform)
\* Left.recover: transform(this.value); Right.recover: new Right(this.value)
recover(this, transform) ==
  IF this.t = "Right" THEN Ok(Right(this.items[1]), NoCalls) ELSE ChainWith(this, transform)
\* an orElse that applies the transform whatever the variant
orElse_always(this, transform) ==
  LET r == Apply(transform, KindOf(this), Payload(this))
  IN  IF r.threw THEN Thrown(r.val, Call(transform, Payload(this)))
      ELSE Ok(r.val, Call(transform, Payload(this)))
\* Left / Failure / None.orElse: transform(this.value), transform(this.error),
\* transform(undefined); Right / Success / Some.orElse: a new instance of the
\* same variant around this.value
orElse(this, transform) ==
  LET r == Apply(transform, "Option", Undefined)
  IN  CASE this.t = "Right" -> Ok(Right(this.items[1]), NoCalls)
        [] this.t = "Success" -> Ok(Success(this.items[1]), NoCalls)
        [] this.t = "Some" -> Ok(Some(this.items[1]), NoCalls)
        [] this.t = "None" ->
             IF r.threw THEN Thrown(r.val, Call(transform, Undefined))
             ELSE Ok(r.val, Call(transform, Undefined))
        [] OTHER -> ChainWith(this, transform)

(***************************************************************************)
(* Observers: onRight / onLeft, onSuccess / onFailure, onSome / onNone.    *)
(* The variant an observer names runs action(this.value) (None: action())  *)
(* and returns this; the other variant returns this.  An outcome built by  *)
(* OkThis returns the receiver itself, not a new instance.                 *)
(***************************************************************************)
OkThis(this, log) == [threw |-> FALSE, ret |-> this, calls |-> log, alias |-> TRUE]
ReturnsThis(r) == "alias" \in DOMAIN r /\ r.alias

\* the closures given to the observers: one records its argument, one throws
Actions == {"record", "throwError"}
RunAction(this, action) ==
  IF action = "throwError" THEN Thrown(Err("handler"), Call(action, Payload(this)))
  ELSE OkThis(this, Call(action, Payload(this)))

onRight(this, action) ==
  IF this.t = "Right" THEN RunAction(this, action) ELSE OkThis(this, NoCalls)
\* an onLeft that returns a copy of the receiver
onLeft_copies(this, action) ==
  IF this.t = "Left" THEN Ok(Left(this.items[1]), Call(action, this.items[1]))
  ELSE Ok(Right(this.items[1]), NoCalls)
onLeft(this, action) ==
  IF this.t = "Left" THEN RunAction(this, action) ELSE OkThis(this, NoCalls)
Try_onSuccess(this, action) ==
  IF this.t = "Success" THEN RunAction(this, action) ELSE OkThis(this, NoCalls)
Try_onFailure(this, action) ==
  IF this.t = "Failure" THEN RunAction(this, action) ELSE OkThis(this, NoCalls)
onSome(this, action) ==
  IF this.t = "Some" THEN RunAction(this, action) ELSE OkThis(this, NoCalls)
onNone(this, action) ==
  IF this.t = "None" THEN RunAction(this, action) ELSE OkThis(this, NoCalls)

(***************************************************************************)
(* Terminal operations of Try, and Option.filter                           *)
(***************************************************************************)
Defaults == {Num("0"), Null}
\* Success.getOrElse: this.value; Failure.getOrElse: the argument
getOrElse(this, value) ==
  IF this.t = "Success" THEN Ok(this.items[1], NoCalls) ELSE Ok(value, NoCalls)
\* a getOrThrow that returns the stored error
getOrThrow_returnsError(this) == Ok(this.items[1], NoCalls)
\* Success.getOrThrow: this.value; Failure.getOrThrow: throw this.error
getOrThrow(this) ==
  IF this.t = "Success" THEN Ok(this.items[1], NoCalls) ELSE Thrown(this.items[1], NoCalls)

Predicates == {"isNumber", "never"}
Test(predicate, x) == predicate = "isNumber" /\ x.t = "number"
\* Some.filter: predicate(this.value) ? new Some(this.value) : new None();
\* None.filter: new None()
filter(this, predicate) ==
  IF this.t = "None" THEN Ok(None, NoCalls)
  ELSE IF Test(predicate, this.items[1]) THEN Ok(Some(this.items[1]), Call(predicate, this.items[1]))
  ELSE Ok(None, Call(predicate, this.items[1]))

(***************************************************************************)
(* The fields of a container when a method called on it, or given it as an *)
(* argument, returns: the variant classes declare value / error in their   *)
(* constructor and no method assigns them.                                 *)
(***************************************************************************)
\* a combineWith that collects the values in the receiver's own field
FieldsAfter_collectsInPlace(name, this) ==
  IF name = "combineWith" /\ IsSuccessVariant(this)
  THEN [this EXCEPT !.items = <<Arr(this.items)>>]
  ELSE this
FieldsAfter(name, this) == this

(***************************************************************************)
(* combineWith: Right / Success fold the others in list order and stop at  *)
(* the first failure; Left / Failure return their own payload.  The log    *)
(* records every element whose fold was called.                            *)
(***************************************************************************)
isUnsuccessful_never(result) == FALSE
isUnsuccessful(result) == result.v # "true"

RECURSIVE CombineLoop(_, _, _, _, _)
CombineLoop(kind, list, i, values, log) ==
  IF i > Len(list)
  THEN Ok(IF kind = "Either" THEN Right(Arr(values)) ELSE Success(Arr(values)), log)
  ELSE LET result == fold(list[i], "unwrap").ret
           log2 == log \o Call("fold", list[i])
       IN  IF isUnsuccessful(result)
           THEN Ok(IF kind = "Either" THEN Left(result.items[1])
                   ELSE Failure(result.items[1]), log2)
           ELSE CombineLoop(kind, list, i + 1, Append(values, result.items[1]), log2)

Right_combineWith(this, list) == CombineLoop("Either", list, 1, <<this.items[1]>>, NoCalls)
Success_combineWith(this, list) == CombineLoop("Try", list, 1, <<this.items[1]>>, NoCalls)
Left_combineWith(this, list) == Ok(Left(this.items[1]), NoCalls)
Failure_combineWith(this, list) == Ok(Failure(this.items[1]), NoCalls)

\* Option declares Railway (option.ts 13) and railway.test.ts 205-222 calls
\* combineWith on it, but the Some and None classes of option.ts carry no
\* such member; these two follow the Railway contract of the specification:
\* the ordered tuple of the present values, or None at the first absent one
RECURSIVE OptionCombineLoop(_, _, _, _)
OptionCombineLoop(list, i, values, log) ==
  IF i > Len(list) THEN Ok(Some(Arr(values)), log)
  ELSE LET log2 == log \o Call("fold", list[i])
       IN  IF list[i].t = "None" THEN Ok(None, log2)
           ELSE OptionCombineLoop(list, i + 1, Append(values, list[i].items[1]), log2)

Some_combineWith_ignoresNone(this, list) ==
  Ok(Some(Arr(<<this.items[1]>> \o [i \in 1..Len(list) |-> Payload(list[i])])), NoCalls)
Some_combineWith(this, list) == OptionCombineLoop(list, 1, <<this.items[1]>>, NoCalls)
None_combineWith(this, list) == Ok(None, NoCalls)

combineWith(this, list) ==
  CASE this.t = "Left" -> Left_combineWith(this, list)
    [] this.t = "Right" -> Right_combineWith(this, list)
    [] this.t = "Success" -> Success_combineWith(this, list)
    [] this.t = "Failure" -> Failure_combineWith(this, list)
    [] this.t = "Some" -> Some_combineWith(this, list)
    [] OTHER -> None_combineWith(this, list)

(***************************************************************************)
(* Static factories                                                        *)
(***************************************************************************)
Either_right(value) == Right(value)
Either_left(value) == Left(value)
Try_success(value) == Success(value)
Try_failure(error) == Failure(error)
Option_some(value) == Some(value)
Option_none == None

Either_catch_raw(execute) ==
  LET r == RunThunk(execute)
  IN  IF ~r.threw THEN Ok(Right(r.val), Call(execute, Undefined))
      ELSE Ok(Left(r.val), Call(execute, Undefined))
\* Either.catch: a thrown Error is kept, anything else becomes Error('Unknown error')
Either_catch(execute) ==
  LET r == RunThunk(execute)
  IN  IF ~r.threw THEN Ok(Either_right(r.val), Call(execute, Undefined))
      ELSE IF IsError(r.val) THEN Ok(Either_left(r.val), Call(execute, Undefined))
      ELSE Ok(Either_left(Err("Unknown error")), Call(execute, Undefined))

\* Try.execute: the thrown value is stored as it is (error as Error is a cast)
Try_execute(executable) ==
  LET r == RunThunk(executable)
  IN  IF ~r.threw THEN Ok(Success(r.val), Call(executable, Undefined))
      ELSE Ok(Failure(r.val), Call(executable, Undefined))

(***************************************************************************)
(* toFuture: the Future returned holds a closure over the container; the   *)
(* X_toFuture_action operators give what the promise of that closure       *)
(* settles to (threw means rejected) once complete invokes it.             *)
(***************************************************************************)
FutureOf(name, this) == [t |-> "Future", v |-> name, items |-> <<this>>]

Left_toFuture(this) == FutureOf("Left.toFuture", this)
Right_toFuture(this) == FutureOf("Right.toFuture", this)
Success_toFuture(this) == FutureOf("Success.toFuture", this)
Failure_toFuture(this) == FutureOf("Failure.toFuture", this)
Some_toFuture(this) == FutureOf("Some.toFuture", this)
None_toFuture(this) == FutureOf("None.toFuture", this)

toFuture(this) ==
  CASE this.t = "Left" -> Left_toFuture(this)
    [] this.t = "Right" -> Right_toFuture(this)
    [] this.t = "Success" -> Success_toFuture(this)
    [] this.t = "Failure" -> Failure_toFuture(this)
    [] this.t = "Some" -> Some_toFuture(this)
    [] OTHER -> None_toFuture(this)

\* Promise.reject(new Error(this.value?.toString() ?? 'Unknown error'))
Left_toFuture_action(this) ==
  Thrown(Err(IF IsNullish(this.items[1]) THEN "Unknown error"
             ELSE JsToString(this.items[1])), NoCalls)
Right_toFuture_action(this) == Ok(this.items[1], NoCalls)
Success_toFuture_action(this) == Ok(this.items[1], NoCalls)
Failure_toFuture_action(this) == Thrown(this.items[1], NoCalls)
Some_toFuture_action(this) == Ok(this.items[1], NoCalls)
None_toFuture_action(this) == Thrown(Err("No value provided"), NoCalls)

toFuture_action(future) ==
  LET this == future.items[1]
  IN  CASE future.v = "Left.toFuture" -> Left_toFuture_action(this)
        [] future.v = "Right.toFuture" -> Right_toFuture_action(this)
        [] future.v = "Success.toFuture" -> Success_toFuture_action(this)
        [] future.v = "Failure.toFuture" -> Failure_toFuture_action(this)
        [] future.v = "Some.toFuture" -> Some_toFuture_action(this)
        [] OTHER -> None_toFuture_action(this)

\* a handler of complete: records its argument or throws
Handlers == {"record", "throwError"}
RunHandler(h, name, x) ==
  IF h = "throwError" THEN Throws(Err("handler")) ELSE Returns(Handled(name, x))

\* Future.complete: this.action().then(onSuccess).catch(onFailure), where a
\* is what this.action() settles to; the catch also receives what onSuccess
\* throws
Complete(a, onSuccess, onFailure) ==
  LET s == RunHandler(onSuccess, "onSuccess", a.ret)
      afterThen == IF a.threw THEN a
                   ELSE IF s.threw THEN Thrown(s.val, a.calls \o Call("onSuccess", a.ret))
                   ELSE Ok(s.val, a.calls \o Call("onSuccess", a.ret))
      c == RunHandler(onFailure, "onFailure", afterThen.ret)
  IN  IF ~afterThen.threw THEN afterThen
      ELSE IF c.threw THEN Thrown(c.val, afterThen.calls \o Call("onFailure", afterThen.ret))
      ELSE Ok(c.val, afterThen.calls \o Call("onFailure", afterThen.ret))

(***************************************************************************)
(* Cross-kind conversion: X.from(other) folds other with a six-key case    *)
(* map whose handlers are X's constructors.                                *)
(***************************************************************************)
Option_from(foldable) == fold(foldable, "Option.from")
Either_from(other) == fold(other, "Either.from")
Try_from(foldable) == fold(foldable, "Try.from")

(***************************************************************************)
(* The synchronous scenario: a container is built by a factory, then up to *)
(* MaxChain methods are called on it or on the container the last call     *)
(* returned.                                                               *)
(* self is the receiver of the last call, fn / arg / others its arguments, *)
(* res its outcome; prev is the call made before it.  self and others are  *)
(* the receiver and the arguments as they are when the call returns.       *)
(***************************************************************************)
NoPrev == [op |-> "none", self |-> Undefined, fn |-> ""]
EitherPool == {Right(Num("1")), Right(Str("a")), Left(Str("err")), Left(Num("7"))}
TryPool == {Success(Num("1")), Success(Str("a")), Failure(Err("err")), Failure(Err("y"))}
OptionPool == {Some(Num("1")), Some(Str("a")), None}
PoolOf(kind) == CASE kind = "Either" -> EitherPool
                  [] kind = "Try" -> TryPool
                  [] OTHER -> OptionPool

RECURSIVE SeqsUpTo(_, _)
SeqsUpTo(S, n) ==
  IF n = 0 THEN {<<>>}
  ELSE LET shorter == SeqsUpTo(S, n - 1)
       IN  shorter \cup {Append(q, x) : q \in shorter, x \in S}

Receivers ==
  (IF IsContainer(self) THEN {self} ELSE {})
    \cup (IF ~res.threw /\ IsContainer(res.ret) THEN {res.ret} ELSE {})

InitSync ==
  /\ self = Undefined
  /\ op = "none"
  /\ fn = ""
  /\ arg = Undefined
  /\ others = <<>>
  /\ res = Ok(Undefined, NoCalls)
  /\ depth = 0
  /\ prev = NoPrev

Construct(name, f, x, result) ==
  /\ scenario = "sync"
  /\ op = "none"
  /\ op' = name
  /\ fn' = f
  /\ arg' = x
  /\ others' = <<>>
  /\ self' = Undefined
  /\ res' = result
  /\ depth' = 0
  /\ prev' = NoPrev
  /\ UNCHANGED <<scenario, lazyVars, asyncVars>>

Method(name, this, f, x, list, result) ==
  /\ scenario = "sync"
  /\ depth < MaxChain
  /\ op' = name
  /\ self' = FieldsAfter(name, this)
  /\ fn' = f
  /\ arg' = x
  /\ others' = [i \in 1..Len(list) |-> FieldsAfter(name, list[i])]
  /\ res' = result
  /\ depth' = depth + 1
  /\ prev' = [op |-> op, self |-> self, fn |-> fn]
  /\ UNCHANGED <<scenario, lazyVars, asyncVars>>

DoEitherRight == \E x \in Payloads : Construct("Either.right", "", x, Ok(Either_right(x), NoCalls))
DoEitherLeft == \E x \in Payloads : Construct("Either.left", "", x, Ok(Either_left(x), NoCalls))
DoEitherCatch == \E f \in Thunks : Construct("Either.catch", f, Undefined, Either_catch(f))
DoTrySuccess == \E x \in Payloads : Construct("Try.success", "", x, Ok(Try_success(x), NoCalls))
DoTryFailure == \E e \in Errors : Construct("Try.failure", "", e, Ok(Try_failure(e), NoCalls))
DoTryExecute == \E f \in Thunks : Construct("Try.execute", f, Undefined, Try_execute(f))
DoOptionOf == \E x \in Payloads : Construct("Option.of", "", x, Ok(Option_of(x), NoCalls))
DoOptionSome ==
  \E x \in Payloads :
    Construct("Option.some", "", x, Ok(Option_some(x), NoCalls))
DoOptionNone == Construct("Option.none", "", Undefined, Ok(Option_none, NoCalls))

DoMap == \E this \in Receivers, f \in MapFns :
  Method("map", this, f, Undefined, <<>>, map(this, f))
DoFlatMap == \E this \in Receivers, f \in FlatMapFns :
  Method("flatMap", this, f, Undefined, <<>>, flatMap(this, f))
DoAndThen == \E this \in Receivers, f \in FlatMapFns :
  Method("andThen", this, f, Undefined, <<>>, andThen(this, f))
\* combineWith is called on the container the factory returned
DoCombineWith ==
  \E this \in Receivers :
    \E list \in SeqsUpTo(PoolOf(KindOf(this)), MaxOthers) :
      /\ depth = 0
      /\ Method("combineWith", this, "", Undefined, list, combineWith(this, list))
DoFold == \E this \in Receivers :
  Method("fold", this, "", Undefined, <<>>, fold(this, "probe"))
DoOptionFrom == \E c \in Receivers :
  Method("Option.from", c, "", c, <<>>, Option_from(c))
DoEitherFrom == \E c \in Receivers :
  Method("Either.from", c, "", c, <<>>, Either_from(c))
DoTryFrom == \E c \in Receivers :
  Method("Try.from", c, "", c, <<>>, Try_from(c))
DoToFuture == \E this \in Receivers :
  Method("toFuture", this, "", Undefined, <<>>, Ok(toFuture(this), NoCalls))
\* future.complete(onSuccess, onFailure) on the Future the last call returned
DoComplete == \E onSuccess \in Handlers :
  /\ ~res.threw
  /\ res.ret.t = "Future"
  /\ Method("complete", res.ret, onSuccess, Undefined, <<>>,
            Complete(toFuture_action(res.ret), onSuccess, "record"))

\* the failure side
DoMapLeft == \E this \in Receivers, f \in MapLeftFns :
  /\ KindOf(this) = "Either"
  /\ Method("mapLeft", this, f, Undefined, <<>>, mapLeft(this, f))
DoFlatMapLeft == \E this \in Receivers, f \in RecoverFns :
  /\ KindOf(this) = "Either"
  /\ Method("flatMapLeft", this, f, Undefined, <<>>, flatMapLeft(this, f))
DoRecover == \E this \in Receivers, f \in RecoverFns :
  /\ KindOf(this) = "Either"
  /\ Method("recover", this, f, Undefined, <<>>, recover(this, f))
DoOrElse == \E this \in Receivers, f \in RecoverFns :
  Method("orElse", this, f, Undefined, <<>>, orElse(this, f))
\* observers
DoOnRight == \E this \in Receivers, a \in Actions :
  /\ KindOf(this) = "Either"
  /\ Method("onRight", this, a, Undefined, <<>>, onRight(this, a))
DoOnLeft == \E this \in Receivers, a \in Actions :
  /\ KindOf(this) = "Either"
  /\ Method("onLeft", this, a, Undefined, <<>>, onLeft(this, a))
DoOnSuccess == \E this \in Receivers, a \in Actions :
  /\ KindOf(this) = "Try"
  /\ Method("onSuccess", this, a, Undefined, <<>>, Try_onSuccess(this, a))
DoOnFailure == \E this \in Receivers, a \in Actions :
  /\ KindOf(this) = "Try"
  /\ Method("onFailure", this, a, Undefined, <<>>, Try_onFailure(this, a))
DoOnSome == \E this \in Receivers, a \in Actions :
  /\ KindOf(this) = "Option"
  /\ Method("onSome", this, a, Undefined, <<>>, onSome(this, a))
DoOnNone == \E this \in Receivers, a \in Actions :
  /\ KindOf(this) = "Option"
  /\ Method("onNone", this, a, Undefined, <<>>, onNone(this, a))
\* terminal operations of Try, Option.filter
DoGetOrElse == \E this \in Receivers, d \in Defaults :
  /\ KindOf(this) = "Try"
  /\ Method("getOrElse", this, "", d, <<>>, getOrElse(this, d))
DoGetOrThrow == \E this \in Receivers :
  /\ KindOf(this) = "Try"
  /\ Method("getOrThrow", this, "", Undefined, <<>>, getOrThrow(this))
DoFilter == \E this \in Receivers, p \in Predicates :
  /\ KindOf(this) = "Option"
  /\ Method("filter", this, p, Undefined, <<>>, filter(this, p))

NextSync ==
  \/ DoMapLeft \/ DoFlatMapLeft \/ DoRecover \/ DoOrElse
  \/ DoOnRight \/ DoOnLeft \/ DoOnSuccess \/ DoOnFailure \/ DoOnSome \/ DoOnNone
  \/ DoGetOrElse \/ DoGetOrThrow \/ DoFilter
  \/ DoEitherRight \/ DoEitherLeft \/ DoEitherCatch
  \/ DoTrySuccess \/ DoTryFailure \/ DoTryExecute
  \/ DoOptionOf \/ DoOptionSome \/ DoOptionNone
  \/ DoMap \/ DoFlatMap \/ DoAndThen \/ DoCombineWith \/ DoFold
  \/ DoOptionFrom \/ DoEitherFrom \/ DoTryFrom
  \/ DoToFuture \/ DoComplete

(***************************************************************************)
(* Deferred effects.  An IO or a Future is the closure it holds: the       *)
(* closure given to of, followed by the transforms that map / flatMap      *)
(* wrapped around it, innermost first.                                     *)
(***************************************************************************)
Description(kind, thunk, steps) == [kind |-> kind, thunk |-> thunk, steps |-> steps]
NoDescription == Description("none", "", <<>>)
Step(name, f) == [op |-> name, f |-> f]

\* the value an IO / Future closure produces when it is finally invoked
IoThunks == {"returnOne", "throwError"}
IoMapFns == {"identity", "double", "toNull", "throwError"}
IoFlatMapFns == {"ioDouble", "throwError"}
FutureActions == {"resolveOne", "rejectError"}
FutureFlatMapFns == {"futureDouble", "futureReject", "throwError"}

\* IO.of / Future.of keep the closure
IO_of(sideEffect) == [obj |-> Description("IO", sideEffect, <<>>), calls |-> NoCalls]
Future_of(action) == [obj |-> Description("Future", action, <<>>), calls |-> NoCalls]

\* a map that runs the wrapped computation at once
IO_map_eager(this, transform) ==
  [obj |-> Description("IO", this.thunk, Append(this.steps, Step("map", transform))),
   calls |-> Call(this.thunk, Undefined) \o Call(transform, Undefined)]
\* IO.map / IO.flatMap build a new closure around this.description
IO_map(this, transform) ==
  [obj |-> Description("IO", this.thunk, Append(this.steps, Step("map", transform))),
   calls |-> NoCalls]
IO_flatMap(this, transform) ==
  [obj |-> Description("IO", this.thunk, Append(this.steps, Step("flatMap", transform))),
   calls |-> NoCalls]
Future_map(this, transform) ==
  [obj |-> Description("Future", this.thunk, Append(this.steps, Step("map", transform))),
   calls |-> NoCalls]
Future_flatMap(this, transform) ==
  [obj |-> Description("Future", this.thunk, Append(this.steps, Step("flatMap", transform))),
   calls |-> NoCalls]

\* IO.toFuture: a Future whose action runs this.runUnsafe() inside a promise
\* executor, resolving with what it returns and rejecting with what it throws
IO_toFuture(this) ==
  [obj |-> Description("Future", this.thunk, this.steps), calls |-> NoCalls]

\* running the composed closure: the original computation, then each
\* transform; a throw ends the run
\* transform(x).runUnsafe() / the promise of transform(x).action(): the
\* transforms given to flatMap return IO.of / Future.of around a closure
InnerRun(f, x) ==
  CASE f = "throwError" -> Thrown(Err("boom"), NoCalls)
    [] f = "futureReject" -> Thrown(Err("inner"), Call("innerAction", Undefined))
    [] OTHER -> Ok(Double(x), Call("innerAction", Undefined))

RECURSIVE RunSteps(_, _, _, _)
RunSteps(steps, i, x, log) ==
  IF i > Len(steps) THEN Ok(x, log)
  ELSE LET f == steps[i].f
           log2 == log \o Call(f, x)
           r == Apply(f, "none", x)
           inner == InnerRun(f, x)
       IN  IF steps[i].op = "map"
           THEN IF r.threw THEN Thrown(r.val, log2)
                ELSE RunSteps(steps, i + 1, r.val, log2)
           ELSE IF inner.threw THEN Thrown(inner.ret, log2 \o inner.calls)
                ELSE RunSteps(steps, i + 1, inner.ret, log2 \o inner.calls)

\* IO.runUnsafe: invoke the description; an exception propagates
IO_runUnsafe(this) ==
  LET r == RunThunk(this.thunk)
      log == Call(this.thunk, Undefined)
  IN  IF r.threw THEN Thrown(r.val, log) ELSE RunSteps(this.steps, 1, r.val, log)

\* this.action() of a Future: ret is the settled value of its promise and
\* threw says that the promise rejected
Future_action(this) ==
  LET log == Call(this.thunk, Undefined)
  IN  CASE this.thunk = "rejectError" -> Thrown(Err("Error"), log)
        [] this.thunk \in IoThunks -> IO_runUnsafe(this)
        [] OTHER -> RunSteps(this.steps, 1, Num("1"), log)

Future_complete(this, onSuccess, onFailure) ==
  Complete(Future_action(this), onSuccess, onFailure)

InitLazy ==
  /\ lazy = NoDescription
  /\ lazyOp = "none"
  /\ effects = NoCalls
  /\ runs = 0
  /\ out = Ok(Undefined, NoCalls)

\* a composition step: the new object replaces the current one, and whatever
\* the call invoked is added to the effects seen so far
Compose(name, r) ==
  /\ scenario = "lazy"
  /\ lazy' = r.obj
  /\ lazyOp' = name
  /\ effects' = effects \o r.calls
  /\ UNCHANGED <<runs, out, scenario, syncVars, asyncVars>>

Execute(name, r) ==
  /\ scenario = "lazy"
  /\ runs < MaxRuns
  /\ lazyOp' = name
  /\ effects' = effects \o r.calls
  /\ runs' = runs + 1
  /\ out' = r
  /\ UNCHANGED <<lazy, scenario, syncVars, asyncVars>>

DoIoOf == \E t \in IoThunks : lazy.kind = "none" /\ Compose("IO.of", IO_of(t))
DoIoMap == \E f \in IoMapFns :
  lazy.kind = "IO" /\ Len(lazy.steps) < MaxSteps /\ Compose("IO.map", IO_map(lazy, f))
DoIoFlatMap == \E f \in IoFlatMapFns :
  lazy.kind = "IO" /\ Len(lazy.steps) < MaxSteps /\ Compose("IO.flatMap", IO_flatMap(lazy, f))
DoIoRunUnsafe == lazy.kind = "IO" /\ Execute("IO.runUnsafe", IO_runUnsafe(lazy))
DoIoToFuture == lazy.kind = "IO" /\ Compose("IO.toFuture", IO_toFuture(lazy))
DoFutureOf == \E a \in FutureActions : lazy.kind = "none" /\ Compose("Future.of", Future_of(a))
DoFutureMap == \E f \in IoMapFns :
  lazy.kind = "Future" /\ Len(lazy.steps) < MaxSteps
    /\ Compose("Future.map", Future_map(lazy, f))
DoFutureFlatMap == \E f \in FutureFlatMapFns :
  lazy.kind = "Future" /\ Len(lazy.steps) < MaxSteps
    /\ Compose("Future.flatMap", Future_flatMap(lazy, f))
DoFutureComplete == \E s \in Handlers, f \in Handlers :
  lazy.kind = "Future" /\ Execute("Future.complete", Future_complete(lazy, s, f))

NextLazy ==
  \/ DoIoOf \/ DoIoMap \/ DoIoFlatMap \/ DoIoRunUnsafe \/ DoIoToFuture
  \/ DoFutureOf \/ DoFutureMap \/ DoFutureFlatMap \/ DoFutureComplete

(***************************************************************************)
(* AsyncEither.  An AsyncEither is the promise it wraps; promises is the   *)
(* table of all promises, in creation order.  A promise records how it was *)
(* made: kind is the mechanism, name the method called, src (and src2 for  *)
(* a race) the promise it reacts to, f the function it was given, adopt    *)
(* the inner promise it awaits, at the time it settled, due the deadline   *)
(* of a timeout.  jobs is the microtask queue, timers the   *)
(* pending setTimeout callbacks.  A script runs to completion (phase       *)
(* "script"), then the event loop drains the microtasks and fires the      *)
(* timers in order of their deadline (phase "loop").                       *)
(***************************************************************************)
BaseDelay == 2

Promise(kind, name, src, src2, f, st, val, t) ==
  [kind |-> kind, name |-> name, src |-> src, src2 |-> src2, f |-> f,
   st |-> st, val |-> val, at |-> t, adopt |-> 0, due |-> 0]
Pending(kind, name, src, src2, f) ==
  Promise(kind, name, src, src2, f, "pending", Undefined, 0)
IsSettled(pr) == pr.st # "pending"
\* the promises that are the private promise of an AsyncEither
AsyncEitherKinds ==
  {"fromSync", "fromPromise", "fromSafePromise", "map", "mapLeft", "flatMap",
   "flatMapLeft", "race"}
AsyncEithers == {i \in 1..Len(promises) : promises[i].kind \in AsyncEitherKinds}

Job(target, src) == [target |-> target, src |-> src]
Timer(deadline, cb, pid, st, val) ==
  [at |-> deadline, cb |-> cb, pid |-> pid, st |-> st, val |-> val]

\* outcome of the callback a promise runs when its source settles
Fulfil(x, calls) == [st |-> "fulfilled", val |-> x, calls |-> calls]
Reject(x, calls) == [st |-> "rejected", val |-> x, calls |-> calls]
\* the callback awaits the promise of the AsyncEither that f(x) returned
Await(f, x, calls) == [st |-> f, val |-> x, calls |-> calls]

\* the closures each method is called with
AsyncMapFns == {"double", "throwError"}
AsyncMapLeftFns == {"double"}
AsyncFlatMapFns == {"toLeft", "asyncRight"}
AsyncFlatMapLeftFns == {"asyncRight", "throwError"}
AsyncAndThenFns == {"asyncLeft"}
AsyncOrElseFns == {"toRight"}
InnerAsync == {"asyncRight", "asyncLeft"}
\* withTimeout(ms, onTimeout): before or after BaseDelay, and a throwing onTimeout
TimeoutArgs ==
  {[ms |-> 1, f |-> "timeoutError"], [ms |-> 3, f |-> "timeoutError"],
   [ms |-> 1, f |-> "throwError"]}

\* onReject / onTimeout closures
RunOnReject(f, e) == IF f = "throwError" THEN Throws(Err("boom")) ELSE Returns(Str(JsToString(e)))
RunOnTimeout(f) == IF f = "throwError" THEN Throws(Err("boom")) ELSE Returns(Str("Timeout error"))
\* flatMap closures returning a synchronous Either
ApplySync(f, x) ==
  CASE f = "toLeft" -> Returns(Left(Str("e2")))
    [] f = "toRight" -> Returns(Right(Double(x)))
    [] OTHER -> Throws(Err("boom"))

\* a fromPromise without the catch: a rejection passes through
AsyncEither_fromPromise_noCatch(s, onReject) ==
  IF s.st = "fulfilled" THEN Fulfil(Right(s.val), NoCalls) ELSE Reject(s.val, NoCalls)
\* fromPromise: promise.then(Either.right).catch(e => Either.left(onReject(e)))
AsyncEither_fromPromise(s, onReject) ==
  IF s.st = "fulfilled" THEN Fulfil(Right(s.val), NoCalls)
  ELSE LET r == RunOnReject(onReject, s.val)
       IN  IF r.threw THEN Reject(r.val, Call(onReject, s.val))
           ELSE Fulfil(Left(r.val), Call(onReject, s.val))

\* fromSafePromise: promise.then(Either.right), a rejection passes through
AsyncEither_fromSafePromise(s) ==
  IF s.st = "fulfilled" THEN Fulfil(Right(s.val), NoCalls) ELSE Reject(s.val, NoCalls)

\* map: this.promise.then(async either => either.fold({ifLeft, ifRight}))
AsyncEither_map(s, f) ==
  IF s.st = "rejected" THEN Reject(s.val, NoCalls)
  ELSE IF s.val.t = "Left" THEN Fulfil(Left(s.val.items[1]), NoCalls)
  ELSE LET r == Apply(f, "Either", s.val.items[1])
       IN  IF r.threw THEN Reject(r.val, Call(f, s.val.items[1]))
           ELSE Fulfil(Right(r.val), Call(f, s.val.items[1]))
AsyncEither_mapLeft(s, f) ==
  IF s.st = "rejected" THEN Reject(s.val, NoCalls)
  ELSE IF s.val.t = "Right" THEN Fulfil(Right(s.val.items[1]), NoCalls)
  ELSE LET r == Apply(f, "Either", s.val.items[1])
       IN  IF r.threw THEN Reject(r.val, Call(f, s.val.items[1]))
           ELSE Fulfil(Left(r.val), Call(f, s.val.items[1]))

\* flatMap / flatMapLeft: the result of f is returned, or awaited when it is
\* an AsyncEither
\* a chain step that settles with its own input whatever f returns
ChainAsync_ignoresInner(f, x) == Fulfil(Right(x), Call(f, x))
ChainAsync(f, x) ==
  IF f \in InnerAsync THEN Await(f, x, Call(f, x))
  ELSE LET r == ApplySync(f, x)
       IN  IF r.threw THEN Reject(r.val, Call(f, x)) ELSE Fulfil(r.val, Call(f, x))
\* a flatMap that calls f on a Left as well
AsyncEither_flatMap_always(s, f) ==
  IF s.st = "rejected" THEN Reject(s.val, NoCalls) ELSE ChainAsync(f, s.val.items[1])
AsyncEither_flatMap(s, f) ==
  IF s.st = "rejected" THEN Reject(s.val, NoCalls)
  ELSE IF s.val.t = "Left" THEN Fulfil(Left(s.val.items[1]), NoCalls)
  ELSE ChainAsync(f, s.val.items[1])
AsyncEither_flatMapLeft(s, f) ==
  IF s.st = "rejected" THEN Reject(s.val, NoCalls)
  ELSE IF s.val.t = "Right" THEN Fulfil(Right(s.val.items[1]), NoCalls)
  ELSE ChainAsync(f, s.val.items[1])

\* fold: const either = await this; return either.fold(folding)
AsyncEither_fold(s) ==
  IF s.st = "rejected" THEN Reject(s.val, NoCalls)
  ELSE Fulfil(fold(s.val, "probe").ret, fold(s.val, "probe").calls)

\* then / await, Promise.race and the await of an inner promise take the
\* settlement of the promise they react to
Adopt(s) == [st |-> s.st, val |-> s.val, calls |-> NoCalls]

Reaction(t, s) ==
  CASE t.adopt # 0 -> Adopt(s)
    [] t.kind = "fromPromise" -> AsyncEither_fromPromise(s, t.f)
    [] t.kind = "fromSafePromise" -> AsyncEither_fromSafePromise(s)
    [] t.kind = "map" -> AsyncEither_map(s, t.f)
    [] t.kind = "mapLeft" -> AsyncEither_mapLeft(s, t.f)
    [] t.kind = "flatMap" -> AsyncEither_flatMap(s, t.f)
    [] t.kind = "flatMapLeft" -> AsyncEither_flatMapLeft(s, t.f)
    [] t.kind = "fold" -> AsyncEither_fold(s)
    [] OTHER -> Adopt(s)

\* the reaction jobs queued when promise pid settles: one for each pending
\* promise that subscribed to it, in creation order
Subscribed(ps, q, pid) ==
  /\ ps[q].st = "pending"
  /\ \/ ps[q].adopt = pid
     \/ ps[q].adopt = 0 /\ (ps[q].src = pid \/ ps[q].src2 = pid)
JobsFor(ps, pid) ==
  LET ids == [i \in 1..Len(ps) |-> i]
      IsSub(q) == Subscribed(ps, q, pid)
      sel == SelectSeq(ids, IsSub)
  IN  [k \in 1..Len(sel) |-> Job(sel[k], pid)]
Settle(ps, pid, st, val, t) ==
  [ps EXCEPT ![pid].st = st, ![pid].val = val, ![pid].at = t]
Logged(pid, calls) == [k \in 1..Len(calls) |-> [pid |-> pid, fn |-> calls[k].fn, arg |-> calls[k].arg]]

\* the AsyncEither a flatMap closure builds: fromSafePromise(Promise.resolve(2x))
\* or fromPromise(Promise.reject('error'), e => e as string)
InnerPromises(f, x, t) ==
  IF f = "asyncRight"
  THEN <<Promise("base", "Promise.resolve", 0, 0, "", "fulfilled", Double(x), t),
         Pending("fromSafePromise", "fromSafePromise", 0, 0, "")>>
  ELSE <<Promise("base", "Promise.reject", 0, 0, "", "rejected", Str("error"), t),
         Pending("fromPromise", "fromPromise", 0, 0, "asString")>>

InitAsync ==
  /\ phase = "script"
  /\ promises = <<>>
  /\ jobs = <<>>
  /\ timers = <<>>
  /\ now = 0
  /\ trace = <<>>
  /\ uncaught = 0
  /\ nops = 0

(* the script *)
\* subscribing to a promise that is already settled queues the job at once
SubscribeJobs(ps, target, src) ==
  IF IsSettled(ps[src]) THEN <<Job(target, src)>> ELSE <<>>

NewSource(base, baseTimers, derived) ==
  /\ scenario = "async"
  /\ phase = "script"
  /\ promises = <<>>
  /\ promises' = <<base, [derived EXCEPT !.src = 1]>>
  /\ timers' = baseTimers
  /\ jobs' = SubscribeJobs(<<base>>, 2, 1)
  /\ UNCHANGED <<now, trace, uncaught, nops, phase, scenario, syncVars, lazyVars>>

Resolved(x) == Promise("base", "Promise.resolve", 0, 0, "", "fulfilled", x, 0)
Rejected(x) == Promise("base", "Promise.reject", 0, 0, "", "rejected", x, 0)
\* new Promise(resolve => setTimeout(() => resolve(x), BaseDelay)), or reject
SlowBase == Pending("base", "new Promise", 0, 0, "")
SlowTimer(st, x) == <<Timer(BaseDelay, "settle", 1, st, x)>>

DoFromSync ==
  \E e \in {Right(Num("1")), Left(Str("l"))} :
    /\ scenario = "async"
    /\ phase = "script"
    /\ promises = <<>>
    /\ promises' = <<Promise("fromSync", "fromSync", 0, 0, "", "fulfilled", e, 0)>>
    /\ UNCHANGED <<jobs, timers, now, trace, uncaught, nops, phase, scenario, syncVars, lazyVars>>
DoFromPromise ==
  \/ \E r \in {"asString", "throwError"} :
       NewSource(Rejected(Err("x")), <<>>, Pending("fromPromise", "fromPromise", 1, 0, r))
  \/ \E st \in {"fulfilled", "rejected"} :
       NewSource(SlowBase, SlowTimer(st, IF st = "fulfilled" THEN Num("1") ELSE Err("x")),
                 Pending("fromPromise", "fromPromise", 1, 0, "asString"))
DoFromSafePromise ==
  \/ \E b \in {Resolved(Num("1")), Rejected(Err("x"))} :
       NewSource(b, <<>>, Pending("fromSafePromise", "fromSafePromise", 1, 0, ""))
  \/ NewSource(SlowBase, SlowTimer("fulfilled", Num("1")),
               Pending("fromSafePromise", "fromSafePromise", 1, 0, ""))

\* a method that starts the wrapped work again each time it is called
ChainOn_restarts(a, kind, name, f) ==
  /\ scenario = "async"
  /\ phase = "script"
  /\ nops < MaxAsyncOps
  /\ promises' = Append(promises, Pending(kind, name, a, 0, f))
  /\ jobs' = jobs \o SubscribeJobs(promises, Len(promises) + 1, a)
  /\ timers' = Append(timers, Timer(now + BaseDelay, "settle", 1, "fulfilled", Num("1")))
  /\ nops' = nops + 1
  /\ UNCHANGED <<now, trace, uncaught, phase, scenario, syncVars, lazyVars>>
\* a method whose callback is attached to the first AsyncEither of the
\* script instead of the receiver
ChainOn_observesRoot(a, kind, name, f) ==
  /\ scenario = "async"
  /\ phase = "script"
  /\ nops < MaxAsyncOps
  /\ promises' = Append(promises, Pending(kind, name, a, 0, f))
  /\ jobs' = jobs \o SubscribeJobs(promises, Len(promises) + 1,
                                   CHOOSE r \in AsyncEithers : \A q \in AsyncEithers : r <= q)
  /\ nops' = nops + 1
  /\ UNCHANGED <<timers, now, trace, uncaught, phase, scenario, syncVars, lazyVars>>
\* a method called on the AsyncEither a: a new promise subscribed to a's
ChainOn(a, kind, name, f) ==
  /\ scenario = "async"
  /\ phase = "script"
  /\ nops < MaxAsyncOps
  /\ promises' = Append(promises, Pending(kind, name, a, 0, f))
  /\ jobs' = jobs \o SubscribeJobs(promises, Len(promises) + 1, a)
  /\ nops' = nops + 1
  /\ UNCHANGED <<timers, now, trace, uncaught, phase, scenario, syncVars, lazyVars>>

DoAsyncMap == \E a \in AsyncEithers, f \in AsyncMapFns : ChainOn(a, "map", "map", f)
DoAsyncMapLeft == \E a \in AsyncEithers, f \in AsyncMapLeftFns : ChainOn(a, "mapLeft", "mapLeft", f)
DoAsyncFlatMap ==
  \E a \in AsyncEithers, f \in AsyncFlatMapFns : ChainOn(a, "flatMap", "flatMap", f)
DoAsyncFlatMapLeft ==
  \E a \in AsyncEithers, f \in AsyncFlatMapLeftFns : ChainOn(a, "flatMapLeft", "flatMapLeft", f)
DoAsyncAndThen ==
  \E a \in AsyncEithers, f \in AsyncAndThenFns : ChainOn(a, "flatMap", "andThen", f)
DoAsyncOrElse ==
  \E a \in AsyncEithers, f \in AsyncOrElseFns : ChainOn(a, "flatMapLeft", "orElse", f)
DoAsyncFold == \E a \in AsyncEithers : ChainOn(a, "fold", "fold", "")
DoAwait == \E a \in AsyncEithers : ChainOn(a, "await", "then", "")

\* withTimeout: Promise.race([this.promise, new Promise(resolve =>
\* setTimeout(() => resolve(Either.left(onTimeout())), ms))])
DoWithTimeout ==
  \E a \in AsyncEithers, w \in TimeoutArgs :
    /\ scenario = "async"
    /\ phase = "script"
    /\ nops < MaxAsyncOps
    /\ promises' = promises \o
         <<Pending("timeout", "new Promise", 0, 0, w.f),
           [Pending("race", "withTimeout", a, Len(promises) + 1, w.f) EXCEPT !.due = now + w.ms]>>
    /\ timers' = Append(timers, Timer(now + w.ms, "timeout", Len(promises) + 1, "", Undefined))
    /\ jobs' = jobs \o SubscribeJobs(promises, Len(promises) + 2, a)
    /\ nops' = nops + 1
    /\ UNCHANGED <<now, trace, uncaught, phase, scenario, syncVars, lazyVars>>

\* the script returns: the event loop takes over
DoEndScript ==
  /\ scenario = "async"
  /\ phase = "script"
  /\ promises # <<>>
  /\ phase' = "loop"
  /\ UNCHANGED <<promises, jobs, timers, now, trace, uncaught, nops, scenario, syncVars, lazyVars>>

(* the event loop *)
\* run the first microtask: the reaction of promise target to the settlement
\* of src; a promise that is already settled ignores it
DoRunJob ==
  /\ scenario = "async"
  /\ phase = "loop"
  /\ jobs # <<>>
  /\ LET j == Head(jobs)
         t == promises[j.target]
         r == Reaction(t, promises[j.src])
         n == Len(promises)
     IN  IF IsSettled(t)
         THEN /\ jobs' = Tail(jobs)
              /\ UNCHANGED <<promises, trace>>
         ELSE IF r.st \in InnerAsync
         THEN LET inner == InnerPromises(r.st, r.val, now)
              IN  /\ promises' = [promises EXCEPT ![j.target].adopt = n + 2]
                       \o <<inner[1], [inner[2] EXCEPT !.src = n + 1]>>
                  /\ jobs' = Append(Tail(jobs), Job(n + 2, n + 1))
                  /\ trace' = trace \o Logged(j.target, r.calls)
         ELSE /\ promises' = Settle(promises, j.target, r.st, r.val, now)
              /\ jobs' = Tail(jobs) \o JobsFor(promises, j.target)
              /\ trace' = trace \o Logged(j.target, r.calls)
  /\ UNCHANGED <<timers, now, uncaught, nops, phase, scenario, syncVars, lazyVars>>

\* a timeout callback that resolves with a Right
AsyncEither_timeoutFires_right(ps, pid, x, t) == Settle(ps, pid, "fulfilled", Right(x), t)
\* a timeout callback that also settles the promise it was raced against
AsyncEither_timeoutFires_cancels(ps, pid, x, t) ==
  LET a == ps[pid + 1].src
      ps2 == IF ps[a].st = "pending" THEN Settle(ps, a, "fulfilled", Left(x), t) ELSE ps
  IN  Settle(ps2, pid, "fulfilled", Left(x), t)
\* the callback of withTimeout: resolve(Either.left(onTimeout())) settles the
\* timeout promise and nothing else
AsyncEither_timeoutFires(ps, pid, x, t) == Settle(ps, pid, "fulfilled", Left(x), t)

\* the timer to fire next: the earliest deadline, the oldest among equals
NextTimer ==
  CHOOSE i \in 1..Len(timers) :
    \A k \in 1..Len(timers) : timers[i].at < timers[k].at \/ (timers[i].at = timers[k].at /\ i <= k)
RemoveAt(q, i) == [k \in 1..(Len(q) - 1) |-> IF k < i THEN q[k] ELSE q[k + 1]]

\* a timer fires when no microtask is left
DoFireTimer ==
  /\ scenario = "async"
  /\ phase = "loop"
  /\ jobs = <<>>
  /\ timers # <<>>
  /\ LET tm == timers[NextTimer]
         t == IF tm.at > now THEN tm.at ELSE now
         r == RunOnTimeout(promises[tm.pid].f)
     IN  /\ now' = t
         /\ timers' = RemoveAt(timers, NextTimer)
         /\ IF tm.cb = "settle"
            THEN /\ promises' = Settle(promises, tm.pid, tm.st, tm.val, t)
                 /\ jobs' = JobsFor(promises, tm.pid)
                 /\ UNCHANGED <<trace, uncaught>>
            ELSE IF r.threw
            THEN /\ uncaught' = uncaught + 1
                 /\ trace' = trace \o Logged(tm.pid, Call(promises[tm.pid].f, Undefined))
                 /\ UNCHANGED <<promises, jobs>>
            ELSE /\ promises' = AsyncEither_timeoutFires(promises, tm.pid, r.val, t)
                 /\ jobs' = JobsFor(promises, tm.pid)
                 /\ trace' = trace \o Logged(tm.pid, Call(promises[tm.pid].f, Undefined))
                 /\ UNCHANGED uncaught
  /\ UNCHANGED <<nops, phase, scenario, syncVars, lazyVars>>

NextAsync ==
  \/ DoFromSync \/ DoFromPromise \/ DoFromSafePromise
  \/ DoAsyncMap \/ DoAsyncMapLeft \/ DoAsyncFlatMap \/ DoAsyncFlatMapLeft
  \/ DoAsyncAndThen \/ DoAsyncOrElse \/ DoAsyncFold \/ DoAwait \/ DoWithTimeout
  \/ DoEndScript \/ DoRunJob \/ DoFireTimer

Init ==
  /\ scenario \in {"sync", "lazy", "async"}
  /\ InitSync
  /\ InitLazy
  /\ InitAsync

Next == NextSync \/ NextLazy \/ NextAsync

Spec == Init /\ [][Next]_vars

(***************************************************************************)
(* Properties                                                              *)
(***************************************************************************)
SameContainer(a, b) == a.t = b.t /\ a.items = b.items

\* C1: on Left, Failure and None, map / flatMap / andThen return the same
\* failure variant with the receiver's payload and never invoke the transform
C1_ShortCircuit ==
  (scenario = "sync" /\ op \in {"map", "flatMap", "andThen"} /\ IsFailureVariant(self))
    => /\ ~res.threw
       /\ SameContainer(res.ret, self)
       /\ Payload(res.ret) = Payload(self)
       /\ res.calls = NoCalls
C1_Witness ==
  /\ op \in {"map", "flatMap", "andThen"}
  /\ IsFailureVariant(self)
  /\ fn = "throwError"
  /\ ~res.threw

\* C2: combineWith on Either and Try: a success receiver yields the ordered
\* tuple of all success values, or the first failure of the list in order,
\* folding no element after it; a failure receiver yields its own payload
\* and folds nothing
FailingAt(list) == {i \in 1..Len(list) : IsFailureVariant(list[i])}
FirstFailing(list) == CHOOSE i \in FailingAt(list) : \A j \in FailingAt(list) : i <= j
FoldLog(list, n) == [i \in 1..n |-> [fn |-> "fold", arg |-> list[i]]]
C2_CombineWith ==
  (scenario = "sync" /\ op = "combineWith" /\ KindOf(self) \in {"Either", "Try"})
    => /\ ~res.threw
       /\ KindOf(res.ret) = KindOf(self)
       /\ IsFailureVariant(self)
            => /\ SameContainer(res.ret, self)
               /\ res.calls = NoCalls
       /\ (IsSuccessVariant(self) /\ FailingAt(others) = {})
            => /\ IsSuccessVariant(res.ret)
               /\ Payload(res.ret)
                    = Arr(<<Payload(self)>> \o [i \in 1..Len(others) |-> Payload(others[i])])
               /\ res.calls = FoldLog(others, Len(others))
       /\ (IsSuccessVariant(self) /\ FailingAt(others) # {})
            => /\ IsFailureVariant(res.ret)
               /\ Payload(res.ret) = Payload(others[FirstFailing(others)])
               /\ res.calls = FoldLog(others, FirstFailing(others))
C2_Witness ==
  /\ op = "combineWith"
  /\ KindOf(self) \in {"Either", "Try"}
  /\ IsSuccessVariant(self)
  /\ Len(others) = 2
  /\ IsFailureVariant(others[1])
  /\ IsFailureVariant(others[2])
  /\ others[1] # others[2]
  /\ Payload(res.ret) = Payload(others[1])

\* C8: Either.catch never throws: Right(fn()) when fn returns, Left(e) when
\* fn throws an Error e, Left(Error('Unknown error')) for any other thrown value
C8_EitherCatch ==
  (scenario = "sync" /\ op = "Either.catch")
    => /\ ~res.threw
       /\ res.calls = Call(fn, Undefined)
       /\ ~RunThunk(fn).threw => res.ret = Right(RunThunk(fn).val)
       /\ (RunThunk(fn).threw /\ IsError(RunThunk(fn).val))
            => res.ret = Left(RunThunk(fn).val)
       /\ (RunThunk(fn).threw /\ ~IsError(RunThunk(fn).val))
            => res.ret = Left(Err("Unknown error"))
C8_Witness ==
  /\ op = "Either.catch"
  /\ fn = "throwString"
  /\ res.ret = Left(Err("Unknown error"))

\* C9: Try.execute never throws, returns Success(fn()) when fn returns, and
\* the Failure it returns when fn throws always holds an Error: the thrown
\* Error itself, or an Error made from a thrown non-Error value
C9_TryExecuteNormalizes ==
  (scenario = "sync" /\ op = "Try.execute")
    => /\ ~res.threw
       /\ ~RunThunk(fn).threw => res.ret = Success(RunThunk(fn).val)
       /\ RunThunk(fn).threw
            => /\ res.ret.t = "Failure"
               /\ IsError(Payload(res.ret))
               /\ IsError(RunThunk(fn).val) => Payload(res.ret) = RunThunk(fn).val

\* C10 as stated: X.from keeps the track and the success value for every
\* payload, null and undefined included
TargetKind == CASE op = "Option.from" -> "Option"
                [] op = "Either.from" -> "Either"
                [] op = "Try.from" -> "Try"
                [] OTHER -> "none"
SuccessVariantOf(kind, x) == CASE kind = "Either" -> Right(x)
                               [] kind = "Try" -> Success(x)
                               [] OTHER -> Some(x)
C10_FromKeepsTrackAlways ==
  (scenario = "sync" /\ op \in {"Option.from", "Either.from", "Try.from"})
    => /\ ~res.threw
       /\ KindOf(res.ret) = TargetKind
       /\ IsSuccessVariant(arg) => res.ret = SuccessVariantOf(TargetKind, Payload(arg))
       /\ IsFailureVariant(arg) => IsFailureVariant(res.ret)

\* C10 amended: X.from keeps the track and the success value, except that
\* Option.from turns a success holding null or undefined into None
C10_FromKeepsTrack ==
  (scenario = "sync" /\ op \in {"Option.from", "Either.from", "Try.from"})
    => /\ ~res.threw
       /\ KindOf(res.ret) = TargetKind
       /\ (IsSuccessVariant(arg) /\ ~(TargetKind = "Option" /\ IsNullish(Payload(arg))))
            => res.ret = SuccessVariantOf(TargetKind, Payload(arg))
       /\ (IsSuccessVariant(arg) /\ TargetKind = "Option" /\ IsNullish(Payload(arg)))
            => res.ret = None
       /\ IsFailureVariant(arg) => IsFailureVariant(res.ret)
C10_Witness ==
  /\ op = "Option.from"
  /\ arg = Right(Null)
  /\ res.ret = None

\* C7: building an IO with IO.of / map / flatMap, or a Future with
\* Future.of / map / flatMap, invokes neither the wrapped computation nor a
\* transform; only runUnsafe and complete invoke them
ComposeOps == {"IO.of", "IO.map", "IO.flatMap", "Future.of", "Future.map", "Future.flatMap"}
C7_LazyComposition ==
  [][/\ lazyOp' \in ComposeOps => effects' = effects
     /\ (runs' = 0 => effects' = NoCalls)
     /\ (lazyOp' \in {"IO.runUnsafe", "Future.complete"} /\ runs' = runs + 1)
          => (effects' # effects /\ effects'[Len(effects) + 1].fn = lazy.thunk)]_vars
C7_Witness ==
  /\ scenario = "lazy"
  /\ lazyOp \in {"IO.flatMap", "Future.flatMap"}
  /\ Len(lazy.steps) = 2
  /\ runs = 0
  /\ effects = NoCalls

\* C3: fold invokes exactly one handler, exactly once: the one named for the
\* container's variant, with its payload (undefined for None), and returns
\* its result; an AsyncEither does so once it has settled to an Either
HandlerOf(c) == CASE c.t = "Left" -> "ifLeft"
                  [] c.t = "Right" -> "ifRight"
                  [] c.t = "Success" -> "ifSuccess"
                  [] c.t = "Failure" -> "ifFailure"
                  [] c.t = "Some" -> "ifSome"
                  [] OTHER -> "ifNone"
CallsBy(pid) ==
  LET IsBy(e) == e.pid = pid
      made == SelectSeq(trace, IsBy)
  IN  [k \in 1..Len(made) |-> [fn |-> made[k].fn, arg |-> made[k].arg]]
FoldObservers == {i \in 1..Len(promises) : promises[i].kind = "fold"}
C3_FoldExhaustive ==
  /\ (scenario = "sync" /\ op = "fold")
       => /\ ~res.threw
          /\ res.calls = Call(HandlerOf(self), Payload(self))
          /\ res.ret = Handled(HandlerOf(self), Payload(self))
  /\ \A o \in FoldObservers :
       LET e == promises[promises[o].src]
       IN  /\ ~IsSettled(promises[o]) => CallsBy(o) = NoCalls
           /\ (IsSettled(promises[o]) /\ e.st = "fulfilled")
                => /\ CallsBy(o) = Call(HandlerOf(e.val), Payload(e.val))
                   /\ promises[o].st = "fulfilled"
                   /\ promises[o].val = Handled(HandlerOf(e.val), Payload(e.val))
C3_Witness ==
  \E o \in FoldObservers :
    /\ promises[o].st = "fulfilled"
    /\ promises[promises[o].src].val.t = "Left"
    /\ promises[promises[o].src].kind # "fromSync"

\* C4: the AsyncEither returned by a.withTimeout(ms, onTimeout) settles as a
\* settles when a settles before ms has elapsed, and to Left(onTimeout())
\* when ms elapses first
Races == {i \in 1..Len(promises) : promises[i].kind = "race"}
Quiescent == scenario = "async" /\ phase = "loop" /\ jobs = <<>> /\ timers = <<>>
SameSettlement(x, y) == x.st = y.st /\ x.val = y.val
TimedOutFirst(r) ==
  \/ ~IsSettled(promises[promises[r].src])
  \/ promises[promises[r].src].at > promises[r].due
C4_TimeoutRace ==
  \A r \in Races :
    LET a == promises[promises[r].src]
    IN  /\ (IsSettled(promises[r]) /\ IsSettled(a) /\ a.at < promises[r].due)
             => SameSettlement(promises[r], a)
        /\ (IsSettled(promises[r]) /\ TimedOutFirst(r) /\ promises[r].f # "throwError")
             => /\ promises[r].st = "fulfilled"
                /\ promises[r].val = Left(RunOnTimeout(promises[r].f).val)
        /\ (Quiescent /\ (IsSettled(a) \/ promises[r].f # "throwError"))
             => IsSettled(promises[r])
C4_Witness ==
  /\ Quiescent
  /\ \E r \in Races :
       /\ promises[r].due = 1
       /\ promises[promises[r].src].val = Right(Num("1"))
       /\ promises[promises[r].src].at = BaseDelay
       /\ promises[r].val = Left(Str("Timeout error"))

\* C5: withTimeout does not cancel or alter the original: after the timeout
\* has won, the original AsyncEither still settles with its own Either, and
\* every other observer of it (await, fold, a chained map) receives that
\* Either
Expected(pr) ==
  IF pr.adopt # 0 THEN Adopt(promises[pr.adopt]) ELSE Reaction(pr, promises[pr.src])
Derived == {"fromPromise", "fromSafePromise", "map", "mapLeft", "flatMap", "flatMapLeft"}
ObserversOf(a) ==
  {i \in 1..Len(promises) :
     promises[i].src = a /\ promises[i].kind \in {"fold", "await", "map", "mapLeft"}}
TimeoutWon(r) ==
  /\ IsSettled(promises[promises[r].src2])
  /\ SameSettlement(promises[r], promises[promises[r].src2])
  /\ promises[r].at = promises[promises[r].src2].at
C5_TimeoutDoesNotCancel ==
  \A r \in Races :
    (Quiescent /\ TimeoutWon(r))
      => LET a == promises[r].src
         IN  /\ IsSettled(promises[a])
             /\ promises[a].kind \in Derived => SameSettlement(promises[a], Expected(promises[a]))
             /\ \A o \in ObserversOf(a) :
                  /\ IsSettled(promises[o])
                  /\ SameSettlement(promises[o], Expected(promises[o]))
                  /\ promises[o].kind = "await" => SameSettlement(promises[o], promises[a])
C5_Witness ==
  /\ Quiescent
  /\ \E r \in Races :
       /\ TimeoutWon(r)
       /\ promises[r].val = Left(Str("Timeout error"))
       /\ promises[promises[r].src].val = Right(Num("1"))
       /\ \E o \in ObserversOf(promises[r].src) :
            promises[o].kind = "fold" /\ promises[o].val = Handled("ifRight", Num("1"))

\* C6: the promise of every AsyncEither settles by fulfilling with a Left or
\* a Right and never by rejecting, whatever the input promise and the
\* functions passed to the combinators do
C6_NeverRejects ==
  \A a \in AsyncEithers :
    /\ promises[a].st # "rejected"
    /\ promises[a].st = "fulfilled" => promises[a].val.t \in {"Left", "Right"}

\* C11: Option.from(Right(v)) is Option.of(v) and Option.from(Left(x)) is
\* None whatever x is; Either.from(Some(v)) is Right(v) and Either.from(None)
\* is Left(undefined)
C11_OptionEitherConversion ==
  /\ (scenario = "sync" /\ op = "Option.from" /\ arg.t = "Right")
       => /\ ~res.threw
          /\ res.ret = Option_of(Payload(arg))
          /\ res.calls = Call("ifRight", Payload(arg))
  /\ (scenario = "sync" /\ op = "Option.from" /\ arg.t = "Left")
       => (~res.threw /\ res.ret = None)
  /\ (scenario = "sync" /\ op = "Either.from" /\ arg.t = "Some")
       => (~res.threw /\ res.ret = Either_right(Payload(arg)))
  /\ (scenario = "sync" /\ op = "Either.from" /\ arg.t = "None")
       => (~res.threw /\ res.ret = Either_left(Undefined))
C11_Witness ==
  /\ op = "Option.from"
  /\ arg = Left(Err("x"))
  /\ res.ret = None

C13_TryFromKeepsError ==
  (scenario = "sync" /\ op = "Try.from" /\ arg.t = "Left")
    => /\ ~res.threw
       /\ res.ret.t = "Failure"
       /\ IsError(Payload(arg)) => Payload(res.ret) = Payload(arg)
       /\ ~IsError(Payload(arg))
            => (IsError(Payload(res.ret)) /\ Payload(res.ret) # Payload(arg))

\* C14: toFuture().complete(onSuccess, onFailure) calls onSuccess with the
\* payload of Right, Success and Some and with the value an IO returns; it
\* calls onFailure with the stored error of a Failure, with
\* Error('No value provided') for None, with what an IO throws, and for a
\* Left with the payload itself when it is an Error and otherwise with an
\* Error whose message is the payload's string representation
C14_ToFuture ==
  /\ (scenario = "sync" /\ op = "complete" /\ fn = "record")
       => LET c == self.items[1]
          IN  /\ ~res.threw
              /\ IsSuccessVariant(c) => res.calls = Call("onSuccess", Payload(c))
              /\ c.t = "Failure" => res.calls = Call("onFailure", Payload(c))
              /\ c.t = "None" => res.calls = Call("onFailure", Err("No value provided"))
              /\ (c.t = "Left" /\ IsError(Payload(c)))
                   => res.calls = Call("onFailure", Payload(c))
              /\ (c.t = "Left" /\ ~IsError(Payload(c)))
                   => res.calls = Call("onFailure", Err(JsToString(Payload(c))))
  /\ (scenario = "lazy" /\ lazyOp = "Future.complete" /\ lazy.thunk \in IoThunks)
       => LET r == IO_runUnsafe(lazy)
              handled == [k \in 1..(Len(out.calls) - Len(r.calls))
                            |-> out.calls[Len(r.calls) + k]]
          IN  /\ ~r.threw => handled[1] = [fn |-> "onSuccess", arg |-> r.ret]
              /\ r.threw => handled = Call("onFailure", r.ret)

\* C15: c.map(x => x) is structurally equal to c for every Option, Either
\* and Try container c, and running io.map(x => x) gives what running io
\* gives
Front(q) == SubSeq(q, 1, Len(q) - 1)
SameOutcome(a, b) == a.threw = b.threw /\ a.ret = b.ret
C15_FunctorIdentity ==
  /\ (scenario = "sync" /\ op = "map" /\ fn = "identity")
       => /\ ~res.threw
          /\ SameContainer(res.ret, self)
          /\ KindOf(res.ret) = KindOf(self)
  /\ (/\ scenario = "lazy" /\ lazy.kind = "IO" /\ lazyOp = "IO.runUnsafe"
      /\ lazy.steps # <<>>
      /\ lazy.steps[Len(lazy.steps)] = Step("map", "identity"))
       => SameOutcome(out, IO_runUnsafe(Description("IO", lazy.thunk, Front(lazy.steps))))
C15_Witness ==
  /\ scenario = "sync"
  /\ op = "map"
  /\ fn = "identity"
  /\ self = Some(Null)
  /\ res.ret = Some(Null)

\* C16: c.map(f).map(g) equals c.map(x => g(f(x))) for every Option, Either
\* and Try container c and every f and g, functions returning null and
\* throwing functions included; for an IO the two runs return or throw the
\* same
ChainedOnPrev ==
  /\ prev.op = "map"
  /\ IsContainer(prev.self)
  /\ ~map(prev.self, prev.fn).threw
  /\ self = map(prev.self, prev.fn).ret
C16_FunctorComposition ==
  /\ (scenario = "sync" /\ op = "map" /\ ChainedOnPrev)
       => SameOutcome(res, map(prev.self, ComposeFn(prev.fn, fn)))
  /\ (scenario = "sync" /\ op = "map" /\ res.threw)
       => \A g \in MapFns : SameOutcome(res, map(self, ComposeFn(fn, g)))
  /\ (/\ scenario = "lazy" /\ lazy.kind = "IO" /\ lazyOp = "IO.runUnsafe"
      /\ Len(lazy.steps) >= 2
      /\ lazy.steps[Len(lazy.steps) - 1].op = "map"
      /\ lazy.steps[Len(lazy.steps)].op = "map")
       => LET n == Len(lazy.steps)
              composed == Step("map", ComposeFn(lazy.steps[n - 1].f, lazy.steps[n].f))
          IN  SameOutcome(out,
                IO_runUnsafe(Description("IO", lazy.thunk,
                                         Append(SubSeq(lazy.steps, 1, n - 2), composed))))
C16_Witness ==
  /\ scenario = "sync"
  /\ op = "map"
  /\ ChainedOnPrev
  /\ prev.self = Some(Num("1"))
  /\ prev.fn = "toNull"
  /\ fn = "double"
  /\ res.ret = Some(Num("0"))

\* C17: Either.right(v).flatMap(f), Try.success(v).flatMap(f) and
\* Option.some(v).flatMap(f) are f(v), returned or thrown, with f invoked
\* exactly once; IO.of(() => v).flatMap(f) runs to what f(v) runs to
C17_LeftIdentity ==
  /\ (scenario = "sync" /\ op = "flatMap" /\ IsSuccessVariant(self))
       => LET r == Apply(fn, KindOf(self), Payload(self))
          IN  /\ res.threw = r.threw
              /\ res.ret = r.val
              /\ res.calls = Call(fn, Payload(self))
  /\ (/\ scenario = "lazy" /\ lazy.kind = "IO" /\ lazyOp = "IO.runUnsafe"
      /\ Len(lazy.steps) = 1
      /\ lazy.steps[1].op = "flatMap"
      /\ ~RunThunk(lazy.thunk).threw)
       => LET v == RunThunk(lazy.thunk).val
              f == lazy.steps[1].f
              IsF(e) == e.fn = f
          IN  /\ SameOutcome(out, InnerRun(f, v))
              /\ SelectSeq(out.calls, IsF) = Call(f, v)
C17_Witness ==
  /\ scenario = "sync"
  /\ op = "flatMap"
  /\ self = Right(Num("1"))
  /\ fn = "toFailure"
  /\ res.ret = Left(Str("e2"))

\* C18: c.flatMap(success) is structurally equal to c for every container c
\* the constructors and combinators can produce, a Some holding null
\* included, where success is Either.right, Try.success or Option.of
C18_RightIdentity ==
  (scenario = "sync" /\ op = "flatMap" /\ fn = "toSuccess")
    => /\ ~res.threw
       /\ SameContainer(res.ret, self)

\* C19: combineWith on Option: Some(v).combineWith(others) is
\* Some([v, v1, ..., vn]) when every element of others is Some and None as
\* soon as an element is None, no later element being looked at;
\* None.combineWith(others) is None whatever others holds
C19_OptionCombineWith ==
  (scenario = "sync" /\ op = "combineWith" /\ KindOf(self) = "Option")
    => /\ ~res.threw
       /\ self.t = "None" => (res.ret = None /\ res.calls = NoCalls)
       /\ (self.t = "Some" /\ FailingAt(others) = {})
            => /\ res.ret
                    = Some(Arr(<<Payload(self)>> \o [i \in 1..Len(others) |-> Payload(others[i])]))
               /\ res.calls = FoldLog(others, Len(others))
       /\ (self.t = "Some" /\ FailingAt(others) # {})
            => /\ res.ret = None
               /\ res.calls = FoldLog(others, FirstFailing(others))
C19_Witness ==
  /\ scenario = "sync"
  /\ op = "combineWith"
  /\ self.t = "Some"
  /\ Len(others) = 2
  /\ others[1].t = "None"
  /\ others[2].t = "Some"
  /\ res.ret = None

\* C20: the work an AsyncEither wraps is started when it is constructed and
\* runs once: calling a combinator or attaching an observer starts no work
\* and changes no existing promise, a settled promise never changes, no
\* callback runs twice, every AsyncEither has settled when the event loop is
\* idle whether or not it is observed, and every observer of one AsyncEither
\* receives the Either it settled with
IsWork(tm) == tm.cb = "settle"
Observers(a, kind) ==
  {o \in 1..Len(promises) : promises[o].src = a /\ promises[o].kind = kind}
MemoizedNow ==
  /\ \A p \in 1..Len(promises) : Len(CallsBy(p)) <= 1
  /\ Quiescent => \A a \in AsyncEithers : IsSettled(promises[a])
  /\ \A a \in AsyncEithers :
       /\ \A o \in Observers(a, "await") :
            IsSettled(promises[o])
              => (IsSettled(promises[a]) /\ SameSettlement(promises[o], promises[a]))
       /\ \A o \in Observers(a, "fold") :
            (IsSettled(promises[o]) /\ promises[a].st = "fulfilled")
              => promises[o].val = fold(promises[a].val, "probe").ret
C20_EagerMemoized ==
  [][/\ nops' = nops + 1
          => /\ SelectSeq(timers', IsWork) = SelectSeq(timers, IsWork)
             /\ trace' = trace
             /\ SubSeq(promises', 1, Len(promises)) = promises
     /\ \A p \in 1..Len(promises) :
          IsSettled(promises[p]) => promises'[p] = promises[p]
     /\ MemoizedNow']_vars
C20_Witness ==
  /\ Quiescent
  /\ \E a \in AsyncEithers :
       /\ promises[a].kind = "fromPromise"
       /\ CallsBy(a) = Call("asString", Err("x"))
       /\ promises[a].val = Left(Str("Error: x"))
       /\ \E o1 \in Observers(a, "await"), o2 \in Observers(a, "fold") :
            /\ SameSettlement(promises[o1], promises[a])
            /\ promises[o2].val = Handled("ifLeft", Str("Error: x"))

\* C21: fromPromise(p, onReject) settles to Right(v) when p fulfils with v
\* and to Left(onReject(e)) when p rejects with e; onReject runs exactly once
\* on a rejection and never otherwise; fromSync(either) is settled with that
\* Either from the start and its observers receive it
FromPromises == {a \in AsyncEithers : promises[a].kind = "fromPromise"}
FromSyncs == {a \in AsyncEithers : promises[a].kind = "fromSync"}
C21_FromPromise ==
  /\ \A a \in FromPromises :
       LET p == promises[promises[a].src]
           r == RunOnReject(promises[a].f, p.val)
       IN  /\ ~IsSettled(promises[a]) => CallsBy(a) = NoCalls
           /\ (IsSettled(promises[a]) /\ p.st = "fulfilled")
                => /\ promises[a].st = "fulfilled"
                   /\ promises[a].val = Right(p.val)
                   /\ CallsBy(a) = NoCalls
           /\ (IsSettled(promises[a]) /\ p.st = "rejected")
                => /\ CallsBy(a) = Call(promises[a].f, p.val)
                   /\ ~r.threw => /\ promises[a].st = "fulfilled"
                                  /\ promises[a].val = Left(r.val)
           /\ (Quiescent /\ IsSettled(p)) => IsSettled(promises[a])
  /\ \A a \in FromSyncs :
       /\ promises[a].st = "fulfilled"
       /\ promises[a].at = 0
       /\ promises[a].val.t \in {"Left", "Right"}
       /\ \A o \in Observers(a, "await") :
            IsSettled(promises[o]) => SameSettlement(promises[o], promises[a])
C21_Witness ==
  /\ Quiescent
  /\ \E a \in FromPromises :
       /\ promises[promises[a].src].kind = "base"
       /\ promises[promises[a].src].name = "new Promise"
       /\ promises[promises[a].src].st = "rejected"
       /\ promises[a].at = BaseDelay
       /\ promises[a].val = Left(Str("Error: x"))
       /\ CallsBy(a) = Call("asString", Err("x"))

\* C22: the failure-side combinators act on one branch only: on a Left with
\* payload l, mapLeft(f) is Left(f(l)) and flatMapLeft(f), orElse(f),
\* recover(f) are f(l); on a Right they return a Right with the same value
\* and do not call f; orElse on Success / Some returns the same success, on
\* Failure / None it returns f(error) / f(undefined)
FailureSideOps == {"mapLeft", "flatMapLeft", "orElse", "recover"}
C22_FailureSide ==
  (scenario = "sync" /\ op \in FailureSideOps)
    => LET x == Payload(self)
           r == Apply(fn, KindOf(self), x)
       IN  IF IsSuccessVariant(self)
           THEN res = Ok(self, NoCalls)
           ELSE /\ res.calls = Call(fn, x)
                /\ res.threw = r.threw
                /\ r.threw => res.ret = r.val
                /\ (~r.threw /\ op = "mapLeft") => res.ret = Left(r.val)
                /\ (~r.threw /\ op # "mapLeft") => res.ret = r.val
C22_Witness ==
  /\ scenario = "sync"
  /\ op = "recover"
  /\ self = Left(Str("err"))
  /\ fn = "toSuccess"
  /\ res = Ok(Right(Str("err")), Call("toSuccess", Str("err")))

\* C23: an observer calls the action exactly once, with the payload, when
\* the receiver is the variant it names and not at all otherwise, and
\* returns the receiver itself
ObservedVariant ==
  CASE op = "onRight" -> "Right"
    [] op = "onLeft" -> "Left"
    [] op = "onSuccess" -> "Success"
    [] op = "onFailure" -> "Failure"
    [] op = "onSome" -> "Some"
    [] op = "onNone" -> "None"
    [] OTHER -> ""
C23_Observers ==
  (scenario = "sync" /\ ObservedVariant # "")
    => /\ res.calls = IF self.t = ObservedVariant THEN Call(fn, Payload(self)) ELSE NoCalls
       /\ (self.t # ObservedVariant \/ fn = "record")
            => /\ ~res.threw
               /\ res.ret = self
               /\ ReturnsThis(res)
       /\ (self.t = ObservedVariant /\ fn = "throwError")
            => /\ res.threw
               /\ res.ret = Err("handler")
C23_Witness ==
  /\ scenario = "sync"
  /\ op = "onLeft"
  /\ self = Left(Str("err"))
  /\ res.calls = Call("record", Str("err"))
  /\ res.ret = self
  /\ ReturnsThis(res)

\* C24: getOrThrow returns the value of a Success and throws the stored
\* error of a Failure; getOrElse(d) returns the value of a Success and d for
\* a Failure and does not throw
C24_TryTerminal ==
  /\ (scenario = "sync" /\ op = "getOrThrow")
       => /\ res.calls = NoCalls
          /\ res.ret = self.items[1]
          /\ res.threw = (self.t = "Failure")
  /\ (scenario = "sync" /\ op = "getOrElse")
       => /\ res.calls = NoCalls
          /\ ~res.threw
          /\ res.ret = IF self.t = "Success" THEN self.items[1] ELSE arg
C24_Witness ==
  /\ scenario = "sync"
  /\ op = "getOrThrow"
  /\ prev.op = "map"
  /\ self = Failure(Err("x"))
  /\ res = Thrown(Err("x"), NoCalls)

\* C25: a Left passes through map / flatMap / andThen and a Right through
\* mapLeft / flatMapLeft / orElse: the result settles to the same Either and
\* the function given is not called
ChainKinds == {"map", "mapLeft", "flatMap", "flatMapLeft"}
Stages == {p \in 1..Len(promises) : promises[p].kind \in ChainKinds}
Source(p) == promises[promises[p].src]
OnRightSide(p) == promises[p].kind \in {"map", "flatMap"}
ShortCircuits(p) ==
  /\ Source(p).st = "fulfilled"
  /\ Source(p).val.t = IF OnRightSide(p) THEN "Left" ELSE "Right"
C25_AsyncShortCircuit ==
  \A p \in Stages :
    ShortCircuits(p)
      => /\ CallsBy(p) = NoCalls
         /\ promises[p].adopt = 0
         /\ IsSettled(promises[p]) => SameSettlement(promises[p], Source(p))
         /\ Quiescent => IsSettled(promises[p])
C25_Witness ==
  /\ Quiescent
  /\ \E p \in Stages, q \in Stages :
       /\ promises[p].name = "andThen"
       /\ Source(p).val = Left(Str("l"))
       /\ promises[p].val = Left(Str("l"))
       /\ promises[q].name = "map"
       /\ promises[q].src = p
       /\ promises[q].val = Left(Str("l"))
       /\ trace = <<>>

\* C26: flatMap / andThen on a Right(r) and flatMapLeft / orElse on a
\* Left(l) settle with the Either of the container f returned, and not
\* before that container has settled, whether it is an AsyncEither or an
\* Either
Chains(p) ==
  /\ promises[p].kind \in {"flatMap", "flatMapLeft"}
  /\ Source(p).st = "fulfilled"
  /\ Source(p).val.t = IF OnRightSide(p) THEN "Right" ELSE "Left"
InnerEither(f, x) ==
  IF f = "asyncRight" THEN Right(Double(x))
  ELSE Left(RunOnReject("asString", Str("error")).val)
C26_InnerWait ==
  \A p \in Stages :
    Chains(p)
      => LET x == Source(p).val.items[1]
             f == promises[p].f
             inner == promises[p].adopt
         IN  /\ (f \in InnerAsync /\ IsSettled(promises[p]))
                  => /\ inner # 0
                     /\ promises[inner].kind \in AsyncEitherKinds
                     /\ IsSettled(promises[inner])
                     /\ promises[inner].at <= promises[p].at
                     /\ SameSettlement(promises[p], promises[inner])
                     /\ promises[p].val = InnerEither(f, x)
             /\ (f \in InnerAsync /\ inner # 0 /\ ~IsSettled(promises[inner]))
                  => ~IsSettled(promises[p])
             /\ (f \notin InnerAsync /\ IsSettled(promises[p]) /\ ~ApplySync(f, x).threw)
                  => /\ promises[p].st = "fulfilled"
                     /\ promises[p].val = ApplySync(f, x).val
             /\ Quiescent => IsSettled(promises[p])
C26_Witness ==
  /\ Quiescent
  /\ \E p \in Stages :
       /\ promises[p].name = "flatMapLeft"
       /\ promises[p].f = "asyncRight"
       /\ Source(p).val = Left(Str("l"))
       /\ promises[p].adopt # 0
       /\ promises[p].val = Right(Num("NaN"))

\* C27: in a chain on an AsyncEither each transform is called at most once,
\* only when the stage before it has settled and with the payload that stage
\* settled with, so after the transform of the stage before it, an
\* asynchronous one included
TracePos(p) == CHOOSE k \in 1..Len(trace) : trace[k].pid = p
C27_ChainOrdering ==
  \A p \in Stages :
    /\ Len(CallsBy(p)) <= 1
    /\ CallsBy(p) # NoCalls
         => /\ Source(p).st = "fulfilled"
            /\ CallsBy(p) = Call(promises[p].f, Source(p).val.items[1])
            /\ Source(p).adopt # 0 => IsSettled(promises[Source(p).adopt])
            /\ (promises[p].src \in Stages /\ CallsBy(promises[p].src) # NoCalls)
                 => TracePos(promises[p].src) < TracePos(p)
C27_Witness ==
  /\ Quiescent
  /\ \E p \in Stages, q \in Stages :
       /\ promises[q].src = p
       /\ promises[p].name = "flatMap"
       /\ promises[p].f = "asyncRight"
       /\ promises[q].name = "map"
       /\ CallsBy(p) = Call("asyncRight", Num("1"))
       /\ CallsBy(q) = Call("double", Num("2"))
       /\ TracePos(p) < TracePos(q)
       /\ promises[q].val = Right(Num("4"))

\* C29: when the original settles before ms has elapsed the result of
\* withTimeout is the original Either and onTimeout is not called; onTimeout
\* is called, once, only when the timeout wins
C29_TimeoutHandler ==
  \A r \in Races :
    LET a == promises[promises[r].src]
        calls == CallsBy(promises[r].src2)
    IN  /\ Len(calls) <= 1
        /\ (IsSettled(a) /\ a.at < promises[r].due)
             => /\ IsSettled(promises[r]) => SameSettlement(promises[r], a)
                /\ calls = NoCalls
        /\ calls # NoCalls => TimedOutFirst(r)

\* C30: every call of Future.complete(onSuccess, onFailure) runs the action
\* once and then exactly one handler, once: onSuccess with the value when
\* the action's promise fulfils, onFailure with the error when it rejects,
\* handlers that throw included
C30_CompleteExactlyOne ==
  (scenario = "lazy" /\ lazyOp = "Future.complete")
    => LET a == Future_action(lazy)
       IN  /\ Len(a.calls) >= 1
           /\ a.calls[1] = [fn |-> lazy.thunk, arg |-> Undefined]
           /\ out.calls = a.calls \o Call(IF a.threw THEN "onFailure" ELSE "onSuccess", a.ret)

====
